---- MODULE Spec2Model ----
(***************************************************************************)
(* A model of the directory processing pipeline of codebase-digest:        *)
(* src/src/core/processor.js (processDirectory and the functions it        *)
(* calls), src/src/utils/file-detection.js (the classifier) and the retry  *)
(* CLI of src/src/cli/index.js (handleAction, loadConfigFile,              *)
(* mergeCliOptions) with its retry wrapper (processWithRetry).             *)
(*                                                                         *)
(* A path is a small integer; the order of the integers is the order       *)
(* String.localeCompare gives the paths.  A glob or ignore pattern is the  *)
(* set of paths of the directory it matches.  Every dynamic call of        *)
(* processDirectory is one record of the sequence calls.                   *)
(***************************************************************************)
EXTENDS Integers, Sequences, FiniteSets, TLC

VARIABLES
    cli,      \* the CLI's handleAction: its arguments, position, exit code
    cfg,      \* the caller's configuration merged over defaultConfig
    dir,      \* the scanned directory: path -> attributes of the file
    ign,      \* the ignore files at the root of the directory
    calls,    \* the processDirectory calls made so far, in order
    wpc,      \* processWithRetry: where the wrapper stands
    wretry,   \* processWithRetry: its local retryCount
    wresult,  \* processWithRetry: what it returned or threw
    wdelays   \* processWithRetry: the retry delays it has waited, in order

vars == <<cli, cfg, dir, ign, calls, wpc, wretry, wresult, wdelays>>

----------------------------------------------------------------------------
(* Bounds of the model. *)

MaxPaths == 3         \* files in the directory (pipeline specifications)
MaxParallel == 3      \* largest maxParallelProcesses drawn
RetryPaths == 2       \* files in the directory (retry specification)
MaxRetryCount == 2    \* largest config.retryCount drawn
MaxSize == 2          \* largest file size and size bound drawn, in bytes
MaxLines == 4         \* most lines of a text file
MaxWindow == 2        \* largest fileContentPreview and fileContentTail

----------------------------------------------------------------------------
(* Sequences and sets. *)

Range(s) == {s[i] : i \in DOMAIN s}

Min(S) == CHOOSE x \in S : \A y \in S : x <= y

RECURSIVE SortAsc(_)
SortAsc(S) == IF S = {} THEN <<>> ELSE <<Min(S)>> \o SortAsc(S \ {Min(S)})

\* Array.prototype.sort by localeCompare: every occurrence is kept
RECURSIVE SortPaths(_)
SortPaths(s) ==
    IF s = <<>> THEN <<>>
    ELSE LET least == Min(Range(s))
             IsLeast(x) == x = least
             IsOther(x) == x # least
         IN SelectSeq(s, IsLeast) \o SortPaths(SelectSeq(s, IsOther))

Reverse(s) == [i \in 1..Len(s) |-> s[Len(s) + 1 - i]]

RECURSIVE Flatten(_)
Flatten(ss) == IF ss = <<>> THEN <<>> ELSE Head(ss) \o Flatten(Tail(ss))

\* a copy of the array that keeps every occurrence
DedupKeepsAll(s) == s

\* [...new Set(files)]: the first occurrence of each element, in order
RECURSIVE Dedup(_)
Dedup(s) ==
    IF s = <<>> THEN <<>>
    ELSE LET init == Dedup(SubSeq(s, 1, Len(s) - 1))
             x == s[Len(s)]
         IN IF x \in Range(init) THEN init ELSE Append(init, x)

\* ceil(a / b) for a >= 0, b >= 1
CeilDiv(a, b) == (a + b - 1) \div b

\* a JavaScript value used as a condition; "undefined" is an absent field
Truthy(v) == v = "true"


----------------------------------------------------------------------------
(* Configuration. *)

\* Number.POSITIVE_INFINITY, as a number larger than any depth
Infinity == 1000000

\* cpus().length of the machine
CpuCount == 3

\* the fields of defaultConfig the pipeline reads; a field it does not
\* define (continueOnError) is absent here too.  Its ignorePatterns
\* (node_modules, *.log, ...) are one rule: the files of the directory whose
\* names they match
defaultConfig(d) ==
    [ outputFormat |-> "text",
      maxFileSize |-> 1048576,
      minFileSize |-> 0,
      ignorePatterns |-> <<[neg |-> FALSE,
                            pat |-> {p \in DOMAIN d : d[p].builtin}]>>,
      includePatterns |-> <<DOMAIN d>>,      \* "**/*"
      excludePatterns |-> {},
      respectGitignore |-> TRUE,
      respectNpmignore |-> TRUE,
      respectDockerignore |-> TRUE,
      includeFileHash |-> FALSE,
      parallel |-> TRUE,
      maxParallelProcesses |-> IF CpuCount - 1 > 1 THEN CpuCount - 1 ELSE 1,
      maxDepth |-> Infinity,
      binaryFilesAction |-> "skip",
      detectBinary |-> TRUE,
      skipBinaryFiles |-> TRUE,
      sortBy |-> "path",
      sortDirection |-> "asc",
      fileGrouping |-> "none",
      retryCount |-> 3,
      retryDelay |-> 1000,
      skipEmptyFiles |-> FALSE,
      fileOrder |-> <<>>,
      directoryOrder |-> <<>>,
      fileContentPreview |-> 0,
      fileContentTail |-> 0 ]

\* { ...defaultConfig, ...userConfig }
MergeConfig(userConfig, d) == userConfig @@ defaultConfig(d)

\* config.<field>: undefined when neither the caller nor defaultConfig sets it
Get(c, field) == IF field \in DOMAIN c THEN c[field] ELSE "undefined"

----------------------------------------------------------------------------
(* The ignore predicate: the `ignore` package's rules.  A rule is a        *)
(* pattern (the paths it matches) that is negated ("!pattern") or not; a   *)
(* path is ignored when the last rule matching it is not negated.          *)

Rule(neg, pat) == [neg |-> neg, pat |-> pat]

\* ig.ignores(file)
Ignores(rules, p) ==
    LET hits == {i \in DOMAIN rules : p \in rules[i].pat}
    IN hits # {} /\ ~rules[CHOOSE i \in hits : \A j \in hits : j <= i].neg

\* ig as loadIgnorePatterns builds it from the root's ignore files (an
\* absent file is the empty list) and config.ignorePatterns
loadIgnorePatterns(c, ig) ==
    (IF c.respectGitignore THEN ig.gitignore ELSE <<>>)
    \o (IF c.respectNpmignore THEN ig.npmignore ELSE <<>>)
    \o (IF c.respectDockerignore THEN ig.dockerignore ELSE <<>>)
    \o c.ignorePatterns

----------------------------------------------------------------------------
(* File discovery. *)

\* glob(pattern, {ignore: excludePatterns, nodir: true}): the files the
\* pattern matches, the excluded ones left out
Glob(pattern, c, d) == SortAsc((pattern \cap DOMAIN d) \ c.excludePatterns)

\* a filter that leaves the ignore check out
KeepFileDepthOnly(p, rules, c, d) == ~(d[p].depth > c.maxDepth)

\* the filter of findMatchingFiles: the ignore check and the depth check
KeepFile(p, rules, c, d) ==
    /\ ~(c.respectGitignore /\ Ignores(rules, p))
    /\ ~(d[p].depth > c.maxDepth)

\* Array.prototype.sort with a comparator that subtracts ranks: ascending
\* rank, equal ranks in their prior order
RECURSIVE StableSortByRank(_, _)
StableSortByRank(s, rank) ==
    IF s = <<>> THEN <<>>
    ELSE LET least == Min({rank[s[j]] : j \in DOMAIN s})
             first == Min({j \in DOMAIN s : rank[s[j]] = least})
         IN <<s[first]>>
            \o StableSortByRank(SubSeq(s, 1, first - 1)
                                \o SubSeq(s, first + 1, Len(s)), rank)

\* config.fileOrder.indexOf(file), for a file the list names
IndexOf(list, x) == Min({j \in DOMAIN list : list[j] = x})

\* getDirectoryPriority(file): the first listed directory the file is
\* under (a directory is the set of the paths under it), else the length
DirectoryPriority(file, c) ==
    LET under == {j \in DOMAIN c.directoryOrder : file \in c.directoryOrder[j]}
    IN IF under = {} THEN Len(c.directoryOrder) + 1 ELSE Min(under)

\* a fileOrder step that leaves the listed files in their sorted order
PrioritizeFilesUnordered(files, c) ==
    LET Listed(f) == f \in Range(c.fileOrder)
        Unlisted(f) == f \notin Range(c.fileOrder)
    IN SelectSeq(files, Listed) \o SelectSeq(files, Unlisted)

\* the fileOrder step of sortFiles: listed files first, by their place in
\* fileOrder, then the others
PrioritizeFiles(files, c) ==
    LET Listed(f) == f \in Range(c.fileOrder)
        Unlisted(f) == f \notin Range(c.fileOrder)
        priorityFiles == SelectSeq(files, Listed)
        rank == [f \in Range(priorityFiles) |-> IndexOf(c.fileOrder, f)]
    IN StableSortByRank(priorityFiles, rank) \o SelectSeq(files, Unlisted)

\* the directoryOrder step of sortFiles
PrioritizeDirectories(files, c) ==
    StableSortByRank(files, [f \in Range(files) |-> DirectoryPriority(f, c)])

\* sortFiles: files.sort by path (the only sort key drawn here), then the
\* fileOrder step and the directoryOrder step
sortFiles(files, c) ==
    LET asc == SortPaths(files)
        sorted == IF c.sortDirection = "asc" THEN asc ELSE Reverse(asc)
        byFile == IF Len(c.fileOrder) > 0 THEN PrioritizeFiles(sorted, c)
                  ELSE sorted
    IN IF Len(c.directoryOrder) > 0 THEN PrioritizeDirectories(byFile, c)
       ELSE byFile

\* the unique glob matches, before the filter
Discovered(c, d) ==
    Dedup(Flatten([k \in DOMAIN c.includePatterns |->
                     Glob(c.includePatterns[k], c, d)]))

findMatchingFiles(rules, c, d) ==
    LET Keep(p) == KeepFile(p, rules, c, d)
    IN sortFiles(SelectSeq(Discovered(c, d), Keep), c)

----------------------------------------------------------------------------
(* The classifier (file-detection.js). *)

\* isBinaryFile(filePath, config).  Called without its config argument the
\* read of config.binaryFileExtensions throws inside its try block, and the
\* catch answers false
isBinaryFile(p, d, configGiven) == IF configGiven THEN d[p].binary ELSE FALSE

\* a classifier whose upper bound is exclusive
shouldProcessFileBelowMax(p, c, d) ==
    IF d[p].fault = "classify" THEN FALSE
    ELSE IF c.skipEmptyFiles /\ d[p].size = 0 THEN FALSE
    ELSE IF d[p].size < c.minFileSize THEN FALSE
    ELSE IF d[p].size >= c.maxFileSize THEN FALSE
    ELSE IF c.detectBinary /\ isBinaryFile(p, d, TRUE) /\ c.skipBinaryFiles
         THEN FALSE
    ELSE TRUE

\* shouldProcessFile(...).shouldProcess
shouldProcessFile(p, c, d) ==
    IF d[p].fault = "classify" THEN FALSE        \* its stat throws: caught
    ELSE IF c.skipEmptyFiles /\ d[p].size = 0 THEN FALSE
    ELSE IF d[p].size < c.minFileSize THEN FALSE
    ELSE IF d[p].size > c.maxFileSize THEN FALSE
    ELSE IF c.detectBinary /\ isBinaryFile(p, d, TRUE) /\ c.skipBinaryFiles
         THEN FALSE
    ELSE TRUE

----------------------------------------------------------------------------
(* processFile. *)

Undefined == "undefined"

\* fileData as processFile first builds it, before the content is read
FileData(p, size, isBinary, hash) ==
    [ path |-> p, size |-> size, isBinary |-> isBinary, hash |-> hash,
      content |-> [kind |-> Undefined, of |-> p, lines |-> <<>>],
      encoding |-> Undefined, error |-> Undefined ]

\* the object the catch block of processFile returns
ErrorRecord(p, message) ==
    [ path |-> p, size |-> 0, isBinary |-> Undefined, hash |-> Undefined,
      content |-> [kind |-> "[Error reading file: " \o message \o "]",
                   of |-> p, lines |-> <<>>],
      encoding |-> Undefined, error |-> message ]

\* processBinaryFile: fileData after it
processBinaryFile(p, fileData, c, d) ==
    IF c.binaryFilesAction \in {"include", "hexdump"}
    THEN IF d[p].fault = "read"
         THEN [fileData EXCEPT
                 !.content.kind = IF c.binaryFilesAction = "include"
                                  THEN "[Error reading binary file: read]"
                                  ELSE "[Error creating hexdump: read]",
                 !.error = "read"]
         ELSE [fileData EXCEPT
                 !.content.kind = IF c.binaryFilesAction = "include"
                                  THEN "base64" ELSE "hexdump",
                 !.encoding = IF c.binaryFilesAction = "include"
                              THEN "base64" ELSE "hexdump"]
    ELSE [fileData EXCEPT !.content.kind = "[Binary file]"]

\* the lines of a text: line j of the file is j, the marker lines are
TruncatedMarker == 0            \* "... [truncated]"
MiddleMarker == -1              \* "... [truncated middle section]"

\* applyContentTransformations, its preview and tail steps: the lines of
\* fileData.content after it.  The tail step splits the content the preview
\* step left
applyContentTransformations(lines, c) ==
    LET P == c.fileContentPreview
        T == c.fileContentTail
        preview ==
          IF P > 0
          THEN SubSeq(lines, 1, IF P < Len(lines) THEN P ELSE Len(lines))
               \o (IF Len(lines) > P THEN <<TruncatedMarker>> ELSE <<>>)
          ELSE lines
    IN IF T > 0 /\ Len(preview) > P + T
       THEN preview \o <<MiddleMarker>>
            \o SubSeq(preview, Len(preview) - T + 1, Len(preview))
       ELSE preview

\* processTextFile: fileData after it; a failed read is caught here
processTextFile(p, fileData, c, d) ==
    IF d[p].fault = "read"
    THEN [fileData EXCEPT !.content.kind = "[Error reading file: read]",
                          !.error = "read"]
    ELSE [fileData EXCEPT
            !.content.kind = "text",
            !.content.lines =
               applyContentTransformations([j \in 1..d[p].lines |-> j], c)]

\* a catch block that rethrows whatever continueOnError says
ProcessFileCatchRethrows(p, message, c) == [tag |-> "throw", error |-> message]

\* the catch block of processFile
ProcessFileCatch(p, message, c) ==
    IF ~Truthy(Get(c, "continueOnError"))
    THEN [tag |-> "throw", error |-> message]
    ELSE [tag |-> "record", rec |-> ErrorRecord(p, message)]

\* processFile: null, a record, or a throw
processFile(p, c, d) ==
    IF ~shouldProcessFile(p, c, d) THEN [tag |-> "null"]
    ELSE IF d[p].fault = "stat" THEN ProcessFileCatch(p, "stat", c)
    ELSE LET isBinary == IF c.detectBinary THEN isBinaryFile(p, d, FALSE)
                         ELSE FALSE
         IN IF c.includeFileHash /\ d[p].fault = "hash"
            THEN ProcessFileCatch(p, "hash", c)
            ELSE LET fileData ==
                       FileData(p, d[p].size,
                                IF isBinary THEN "true" ELSE "false",
                                IF c.includeFileHash THEN "hex" ELSE Undefined)
                 IN [tag |-> "record",
                     rec |-> IF isBinary
                             THEN processBinaryFile(p, fileData, c, d)
                             ELSE processTextFile(p, fileData, c, d)]

----------------------------------------------------------------------------
(* processFiles, groupFiles, formatOutput. *)

\* chunking that does not look at config.parallel
LanesAlwaysChunked(files, c) ==
    IF Len(files) > 1
    THEN LET chunkSize == CeilDiv(Len(files), c.maxParallelProcesses)
             n == CeilDiv(Len(files), chunkSize)
         IN [k \in 1..n |->
               SubSeq(files, (k - 1) * chunkSize + 1,
                      IF k * chunkSize < Len(files) THEN k * chunkSize
                      ELSE Len(files))]
    ELSE <<files>>

\* chunking of one file per chunk, whatever the limit
LanesOnePerFile(files, c) ==
    IF c.parallel /\ Len(files) > 1
    THEN [k \in 1..Len(files) |-> <<files[k]>>]
    ELSE <<files>>

\* chunks that each start on the last file of the chunk before
LanesOverlapping(files, c) ==
    IF c.parallel /\ Len(files) > 1
    THEN LET chunkSize == CeilDiv(Len(files), c.maxParallelProcesses)
             n == CeilDiv(Len(files), chunkSize)
         IN [k \in 1..n |->
               SubSeq(files, IF k = 1 THEN 1 ELSE (k - 1) * chunkSize,
                      IF k * chunkSize < Len(files) THEN k * chunkSize
                      ELSE Len(files))]
    ELSE <<files>>

\* the lanes processFiles runs: the chunks in parallel mode, the one loop
\* over all files otherwise
Lanes(files, c) ==
    IF c.parallel /\ Len(files) > 1
    THEN LET chunkSize == CeilDiv(Len(files), c.maxParallelProcesses)
             n == CeilDiv(Len(files), chunkSize)
         IN [k \in 1..n |->
               SubSeq(files, (k - 1) * chunkSize + 1,
                      IF k * chunkSize < Len(files) THEN k * chunkSize
                      ELSE Len(files))]
    ELSE <<files>>

\* the key groupFiles compares
GroupKey(rec, d) == d[rec.path].ext

\* Array.prototype.sort by GroupKey: stable
RECURSIVE StableSortByKey(_, _)
StableSortByKey(recs, d) ==
    IF recs = <<>> THEN <<>>
    ELSE LET least == Min({GroupKey(recs[i], d) : i \in DOMAIN recs})
             first == Min({i \in DOMAIN recs : GroupKey(recs[i], d) = least})
         IN <<recs[first]>>
            \o StableSortByKey(SubSeq(recs, 1, first - 1)
                               \o SubSeq(recs, first + 1, Len(recs)), d)

\* groupFiles throws: with "language" its comparator calls languageMap,
\* which the module never defines; the comparator runs once there are two
\* records
GroupFilesThrows(recs, c) == c.fileGrouping = "language" /\ Len(recs) >= 2

groupFiles(recs, c, d) ==
    IF c.fileGrouping = "extension" THEN StableSortByKey(recs, d) ELSE recs

\* String.prototype.toLowerCase, on the format names drawn here
toLowerCase(s) ==
    CASE s = "TEXT" -> "text"
      [] s = "JSON" -> "json"
      [] s = "Json" -> "json"
      [] s = "Markdown" -> "markdown"
      [] s = "Tree" -> "tree"
      [] s = "CSV" -> "csv"
      [] s = "Html" -> "html"
      [] s = "XML" -> "xml"
      [] OTHER -> s

\* the renderer formatOutput dispatches to: the switch on
\* config.outputFormat.toLowerCase() and its default branch
Renderer(c) ==
    LET f == toLowerCase(c.outputFormat)
    IN IF f \in {"text", "json", "markdown", "tree"} THEN f ELSE "text"

\* the output: the renderer and what it prints of each record, in order
formatOutput(recs, c) ==
    [ renderer |-> Renderer(c),
      files |-> [i \in DOMAIN recs |->
                   [path |-> recs[i].path, content |-> recs[i].content]] ]

----------------------------------------------------------------------------
(* One processDirectory call. *)

NoOutput == [renderer |-> "none", files |-> <<>>]

NewCall ==
    [ stage |-> "start",          \* start, files (in processFiles), end
      files |-> <<>>,             \* what findMatchingFiles returned
      lanes |-> <<>>,
      i |-> 0,                    \* the i of the chunk-building loop
      pos |-> <<>>,               \* per lane: the files it has processed
      dead |-> {},                \* the lanes a throw has ended
      inflight |-> {},            \* the lanes awaiting a processFile call
      invoked |-> <<>>,           \* the paths processFile was called with
      fileContents |-> <<>>,      \* the array processFiles pushes to
      processing |-> "pending",   \* processingPromise
      timer |-> "armed",          \* the setTimeout of timeoutPromise
      state |-> "pending",        \* the promise processDirectory returned
      value |-> NoOutput,         \* ... its value when fulfilled
      error |-> Undefined ]       \* ... its error when rejected

TimeoutMessage == "Operation timed out"

\* the call rejects, unless the race is already decided
Reject(r, message) ==
    IF r.state = "pending"
    THEN [r EXCEPT !.state = "rejected",
                   !.error = "Error processing directory: " \o message]
    ELSE r

\* a settle that overwrites a decided race
FulfilOverwrites(r, output) ==
    [r EXCEPT !.state = "fulfilled", !.value = output]

\* the call fulfils, unless the race is already decided
Fulfil(r, output) ==
    IF r.state = "pending"
    THEN [r EXCEPT !.state = "fulfilled", !.value = output]
    ELSE r

\* loadIgnorePatterns, findMatchingFiles and the chunking of processFiles
StartCall(r, c, d, ig) ==
    LET files == findMatchingFiles(loadIgnorePatterns(c, ig), c, d)
        lanes == Lanes(files, c)
    IN [r EXCEPT !.stage = "files", !.files = files, !.lanes = lanes,
                 !.pos = [k \in DOMAIN lanes |-> 0]]

\* a lane that puts its result at the front of the array (unshift)
LaneStepUnshifts(r, k, c, d) ==
    LET file == r.lanes[k][r.pos[k] + 1]
        res == processFile(file, c, d)
    IN IF res.tag = "throw"
       THEN Reject([r EXCEPT !.dead = @ \cup {k},
                             !.inflight = @ \ {k},
                             !.invoked = IF k \in r.inflight THEN @
                                         ELSE Append(@, file),
                             !.processing = IF @ = "pending" THEN "rejected"
                                            ELSE @],
                   res.error)
       ELSE [r EXCEPT !.pos[k] = @ + 1,
                      !.inflight = @ \ {k},
                      !.invoked = IF k \in r.inflight THEN @
                                  ELSE Append(@, file),
                      !.fileContents = IF res.tag = "record"
                                       THEN <<res.rec>> \o @ ELSE @]

\* lane k calls processFile for its next file and awaits it
LaneBegin(r, k) ==
    [r EXCEPT !.inflight = @ \cup {k},
              !.invoked = Append(@, r.lanes[k][r.pos[k] + 1])]

\* the processFile call of lane k for its next file settles (the call is
\* made here too when the lane is not awaiting one) and the lane pushes
\* the result
LaneStep(r, k, c, d) ==
    LET file == r.lanes[k][r.pos[k] + 1]
        res == processFile(file, c, d)
    IN IF res.tag = "throw"
       THEN Reject([r EXCEPT !.dead = @ \cup {k},
                             !.inflight = @ \ {k},
                             !.invoked = IF k \in r.inflight THEN @
                                         ELSE Append(@, file),
                             !.processing = IF @ = "pending" THEN "rejected"
                                            ELSE @],
                   res.error)
       ELSE [r EXCEPT !.pos[k] = @ + 1,
                      !.inflight = @ \ {k},
                      !.invoked = IF k \in r.inflight THEN @
                                  ELSE Append(@, file),
                      !.fileContents = IF res.tag = "record"
                                       THEN Append(@, res.rec) ELSE @]

LanesDone(r) ==
    /\ r.dead = {}
    /\ \A k \in DOMAIN r.lanes : r.pos[k] = Len(r.lanes[k])

\* processFiles returned: group, format, settle
FinishCall(r, c, d) ==
    IF GroupFilesThrows(r.fileContents, c)
    THEN Reject([r EXCEPT !.stage = "end", !.processing = "rejected"],
                "languageMap is not defined")
    ELSE Fulfil([r EXCEPT !.stage = "end", !.processing = "resolved"],
                formatOutput(groupFiles(r.fileContents, c, d), c))

\* the timer of timeoutPromise fires
TimerFire(r) == Reject([r EXCEPT !.timer = "fired"], TimeoutMessage)

----------------------------------------------------------------------------
(* processWithRetry (cli/index.js). *)

\* the head of the while loop: call processDirectory, or leave the loop
RetryLoop ==
    /\ wpc = "loop"
    /\ IF wretry <= cfg.retryCount
       THEN /\ calls' = Append(calls, NewCall)
            /\ wpc' = "await"
            /\ UNCHANGED wresult
       ELSE /\ wpc' = "returned"
            /\ wresult' = [kind |-> "value", value |-> NoOutput,
                           error |-> Undefined]
            /\ UNCHANGED calls
    /\ UNCHANGED <<cli, cfg, dir, ign, wretry, wdelays>>

\* a catch block that compares with < and so gives up one attempt early
RetryAwaitGivesUpEarly ==
    /\ wpc = "await"
    /\ LET r == calls[Len(calls)]
       IN /\ r.state # "pending"
          /\ IF r.state = "fulfilled"
             THEN /\ wpc' = "returned"
                  /\ wresult' = [kind |-> "value", value |-> r.value,
                                 error |-> Undefined]
                  /\ UNCHANGED wretry
             ELSE /\ wretry' = wretry + 1
                  /\ IF wretry + 1 < cfg.retryCount
                     THEN wpc' = "delay" /\ UNCHANGED wresult
                     ELSE /\ wpc' = "thrown"
                          /\ wresult' = [kind |-> "error", value |-> NoOutput,
                                         error |-> r.error]
    /\ UNCHANGED <<cli, cfg, dir, ign, calls, wdelays>>

\* the awaited call settled: break with its result, or catch its error
RetryAwait ==
    /\ wpc = "await"
    /\ LET r == calls[Len(calls)]
       IN /\ r.state # "pending"
          /\ IF r.state = "fulfilled"
             THEN /\ wpc' = "returned"
                  /\ wresult' = [kind |-> "value", value |-> r.value,
                                 error |-> Undefined]
                  /\ UNCHANGED wretry
             ELSE /\ wretry' = wretry + 1
                  /\ IF wretry + 1 <= cfg.retryCount
                     THEN wpc' = "delay" /\ UNCHANGED wresult
                     ELSE /\ wpc' = "thrown"
                          /\ wresult' = [kind |-> "error", value |-> NoOutput,
                                         error |-> r.error]
    /\ UNCHANGED <<cli, cfg, dir, ign, calls, wdelays>>

\* a wait that grows with the number of the retry
RetryDelayBacksOff ==
    /\ wpc = "delay"
    /\ wpc' = "loop"
    /\ wdelays' = Append(wdelays, cfg.retryDelay * wretry)
    /\ UNCHANGED <<cli, cfg, dir, ign, calls, wretry, wresult>>

\* the setTimeout of config.retryDelay elapsed
RetryDelay ==
    /\ wpc = "delay"
    /\ wpc' = "loop"
    /\ wdelays' = Append(wdelays, cfg.retryDelay)
    /\ UNCHANGED <<cli, cfg, dir, ign, calls, wretry, wresult>>

----------------------------------------------------------------------------
(* handleAction (cli/index.js). *)

\* program.opts() after commander parsed the arguments: an option declared
\* with a default has it when the flag is absent; --binary-action is stored
\* under binaryAction
ParseOptions(argv) ==
    [ format |-> IF argv.format = Undefined THEN "text" ELSE argv.format,
      binaryAction |-> IF argv.binaryAction = Undefined THEN "skip"
                       ELSE argv.binaryAction,
      config |-> argv.config ]

\* loadConfigFile: the merged configuration, or a throw
loadConfigFile(file, config) ==
    IF file.state = "missing"
    THEN [tag |-> "throw", error |-> "Config file not found", config |-> config]
    ELSE IF file.state = "malformed"
    THEN [tag |-> "throw", error |-> "Error parsing config file",
          config |-> config]
    ELSE [tag |-> "value", error |-> Undefined, config |-> file.json @@ config]

\* mergeCliOptions, for the options drawn here: format and binaryFiles
mergeCliOptions(options, config) ==
    LET c1 == IF Get(options, "format") # Undefined
              THEN [outputFormat |-> options.format] @@ config ELSE config
    IN IF Get(options, "binaryFiles") # Undefined
       THEN [binaryFilesAction |-> options.binaryFiles] @@ c1 ELSE c1

CliExits(code, message) ==
    cli' = [cli EXCEPT !.pc = "exit", !.exitCode = code, !.stderr = message]

\* handleAction up to its call of processWithRetry
HandleAction ==
    /\ cli.pc = "start"
    /\ LET options == ParseOptions(cli.argv)
           loaded == IF options.config # Undefined
                     THEN loadConfigFile(cli.argv.configFile, cfg)
                     ELSE [tag |-> "value", error |-> Undefined, config |-> cfg]
       IN IF loaded.tag = "throw"
          THEN /\ CliExits(1, "Error: " \o loaded.error)
               /\ UNCHANGED <<cfg, wpc>>
          ELSE IF ~cli.argv.dirValid
          THEN /\ CliExits(1, "Error: The provided path is not a valid directory")
               /\ cfg' = mergeCliOptions(options, loaded.config)
               /\ UNCHANGED wpc
          ELSE /\ cfg' = mergeCliOptions(options, loaded.config)
               /\ wpc' = "loop"
               /\ cli' = [cli EXCEPT !.pc = "retry"]
    /\ UNCHANGED <<dir, ign, calls, wretry, wresult, wdelays>>

\* handleAction after processWithRetry: handleOutput and exit(0), or the
\* catch block and exit(1)
CliExit ==
    /\ cli.pc = "retry"
    /\ wpc \in {"returned", "thrown"}
    /\ IF wpc = "returned" THEN CliExits(0, Undefined)
       ELSE CliExits(1, "Error: " \o wresult.error)
    /\ UNCHANGED <<cfg, dir, ign, calls, wpc, wretry, wresult, wdelays>>

----------------------------------------------------------------------------
(* The steps of the processDirectory calls. *)

Start(i) ==
    /\ calls[i].stage = "start"
    /\ calls' = [calls EXCEPT ![i] = StartCall(@, cfg, dir, ign)]
    /\ UNCHANGED <<cli, cfg, dir, ign, wpc, wretry, wresult, wdelays>>

\* a chunk's loop reaches `await processFile(...)`
Begin(i, k) ==
    /\ calls[i].stage = "files"
    /\ k \in DOMAIN calls[i].lanes
    /\ k \notin calls[i].dead
    /\ k \notin calls[i].inflight
    /\ calls[i].pos[k] < Len(calls[i].lanes[k])
    /\ calls' = [calls EXCEPT ![i] = LaneBegin(@, k)]
    /\ UNCHANGED <<cli, cfg, dir, ign, wpc, wretry, wresult, wdelays>>

\* the awaited processFile of a chunk settles
Complete(i, k) ==
    /\ calls[i].stage = "files"
    /\ k \in calls[i].inflight
    /\ calls' = [calls EXCEPT ![i] = LaneStep(@, k, cfg, dir)]
    /\ UNCHANGED <<cli, cfg, dir, ign, wpc, wretry, wresult, wdelays>>

\* a loop of processFiles that pushes to one array all calls share: the
\* record also lands in the array of every other call that is collecting
ProcessSharesArray(i, k) ==
    /\ calls[i].stage = "files"
    /\ k \in DOMAIN calls[i].lanes
    /\ k \notin calls[i].dead
    /\ k \notin calls[i].inflight
    /\ calls[i].pos[k] < Len(calls[i].lanes[k])
    /\ LET res == processFile(calls[i].lanes[k][calls[i].pos[k] + 1], cfg, dir)
       IN calls' = [j \in DOMAIN calls |->
                     IF j = i THEN LaneStep(calls[j], k, cfg, dir)
                     ELSE IF calls[j].stage = "files" /\ res.tag = "record"
                     THEN [calls[j] EXCEPT
                             !.fileContents = Append(@, res.rec)]
                     ELSE calls[j]]
    /\ UNCHANGED <<cli, cfg, dir, ign, wpc, wretry, wresult, wdelays>>

\* one iteration of a loop of processFiles, call and result in one step
Process(i, k) ==
    /\ calls[i].stage = "files"
    /\ k \in DOMAIN calls[i].lanes
    /\ k \notin calls[i].dead
    /\ k \notin calls[i].inflight
    /\ calls[i].pos[k] < Len(calls[i].lanes[k])
    /\ calls' = [calls EXCEPT ![i] = LaneStep(@, k, cfg, dir)]
    /\ UNCHANGED <<cli, cfg, dir, ign, wpc, wretry, wresult, wdelays>>

Finish(i) ==
    /\ calls[i].stage = "files"
    /\ LanesDone(calls[i])
    /\ calls' = [calls EXCEPT ![i] = FinishCall(@, cfg, dir)]
    /\ UNCHANGED <<cli, cfg, dir, ign, wpc, wretry, wresult, wdelays>>

Timeout(i) ==
    /\ calls[i].timer = "armed"
    /\ calls' = [calls EXCEPT ![i] = TimerFire(@)]
    /\ UNCHANGED <<cli, cfg, dir, ign, wpc, wretry, wresult, wdelays>>

----------------------------------------------------------------------------
(* What the specifications draw from. *)

File(size, binary, fault, ext, builtin) ==
    [ size |-> size, binary |-> binary, fault |-> fault, depth |-> 1,
      ext |-> ext, builtin |-> builtin, lines |-> 1 ]

Accepted == File(1, FALSE, "none", 1, FALSE)
TooLarge == File(2, FALSE, "none", 1, FALSE)   \* with maxFileSize 1
StatFails == File(1, FALSE, "stat", 1, FALSE)
ReadFails == File(1, FALSE, "read", 1, FALSE)
HashFails == File(1, FALSE, "hash", 1, FALSE)

NoIgnoreFiles == [gitignore |-> <<>>, npmignore |-> <<>>, dockerignore |-> <<>>]

\* the arguments of a CLI run: what follows -f, --binary-action and -c (or
\* undefined), the file -c names, and whether <directory> is a directory
Argv(format, binaryAction, config, configFile, dirValid) ==
    [ format |-> format, binaryAction |-> binaryAction, config |-> config,
      configFile |-> configFile, dirValid |-> dirValid ]

MissingFile == [state |-> "missing", json |-> <<>>]
MalformedFile == [state |-> "malformed", json |-> <<>>]
JsonFile(fileConfig) == [state |-> "valid", json |-> fileConfig]

\* a caller of the library: handleAction does not run
NoCli ==
    [ pc |-> "none",
      argv |-> Argv(Undefined, Undefined, Undefined, MissingFile, TRUE),
      exitCode |-> -1, stderr |-> Undefined ]

\* a library caller: neither the CLI nor its retry wrapper runs
NoWrapper ==
    /\ cli = NoCli
    /\ wpc = "none"
    /\ wretry = 0
    /\ wresult = [kind |-> "none", value |-> NoOutput, error |-> Undefined]
    /\ wdelays = <<>>

----------------------------------------------------------------------------
(* Spec: one processDirectory call of a library caller, whose timeout does *)
(* not elapse; files that fail and files the classifier rejects.           *)

Dirs == UNION {[1..n -> {Accepted, TooLarge, StatFails, ReadFails, HashFails}] :
               n \in 0..MaxPaths}

UserConfigs ==
    {[maxFileSize |-> 1, includeFileHash |-> TRUE, parallel |-> FALSE]}
    \cup {[maxFileSize |-> 1, includeFileHash |-> TRUE, parallel |-> TRUE,
           maxParallelProcesses |-> m] : m \in 1..MaxParallel}

WithContinueOnError(u) ==
    {u} \cup {[continueOnError |-> v] @@ u : v \in {"true", "false"}}

Init ==
    /\ dir \in Dirs
    /\ \E u \in UserConfigs : \E v \in WithContinueOnError(u) :
          cfg = MergeConfig(v, dir)
    /\ ign = NoIgnoreFiles
    /\ calls = <<NewCall>>
    /\ NoWrapper

Next ==
    \/ \E i \in DOMAIN calls : Start(i)
    \/ \E i \in DOMAIN calls : \E k \in DOMAIN calls[i].lanes : Process(i, k)
    \/ \E i \in DOMAIN calls : Finish(i)

Spec == Init /\ [][Next]_vars

----------------------------------------------------------------------------
(* SpecIgnore: one processDirectory call over files that all read well,    *)
(* under include, exclude and ignore settings.  Path 2 has a name the      *)
(* built-in ignore list of defaultConfig matches, or not; path 3 is above  *)
(* maxFileSize, or not.                                                    *)

BuiltinName == File(1, FALSE, "none", 1, TRUE)

IgnoreDirs ==
    {[p \in 1..MaxPaths |->
        IF p = 2 /\ b THEN BuiltinName
        ELSE IF p = 3 /\ t THEN TooLarge ELSE Accepted] : b, t \in BOOLEAN}

IncludeMenus == {<<1..MaxPaths>>, <<{1}, 1..MaxPaths>>, <<{2}, {1}>>, <<{1, 2}>>}

ExcludeMenus == {{}, {1}}

GitignoreMenus ==
    {<<>>, <<Rule(FALSE, {1})>>, <<Rule(FALSE, {1, 2}), Rule(TRUE, {2})>>}

NpmignoreMenus == {<<>>, <<Rule(TRUE, {1})>>, <<Rule(FALSE, {2})>>}

IgnoreUserConfigs ==
    {[maxFileSize |-> 1, maxParallelProcesses |-> 2, parallel |-> par,
      includePatterns |-> inc, excludePatterns |-> exc,
      respectGitignore |-> rg, respectNpmignore |-> rn] :
        par \in BOOLEAN, inc \in IncludeMenus, exc \in ExcludeMenus,
        rg \in BOOLEAN, rn \in BOOLEAN}

InitIgnore ==
    /\ dir \in IgnoreDirs
    /\ \E u \in IgnoreUserConfigs : cfg = MergeConfig(u, dir)
    /\ \E g \in GitignoreMenus : \E n \in NpmignoreMenus :
          ign = [gitignore |-> g, npmignore |-> n, dockerignore |-> <<>>]
    /\ calls = <<NewCall>>
    /\ NoWrapper

SpecIgnore == InitIgnore /\ [][Next]_vars

----------------------------------------------------------------------------
(* SpecTwoRuns: two consecutive processDirectory calls of a library caller *)
(* on the same directory with the same configuration, json output.         *)

\* the caller's second call, made once the first has settled
SecondRun ==
    /\ Len(calls) = 1
    /\ calls[1].state # "pending"
    /\ calls' = Append(calls, NewCall)
    /\ UNCHANGED <<cli, cfg, dir, ign, wpc, wretry, wresult, wdelays>>

TwoRunsDirs ==
    UNION {[1..n -> {File(1, FALSE, "none", e, FALSE) : e \in 1..2}
                    \cup {TooLarge, ReadFails}] : n \in 0..MaxPaths}

\* the first is the default configuration but for the output format
TwoRunsUserConfigs ==
    {[outputFormat |-> "json", maxFileSize |-> 1, fileGrouping |-> g] :
        g \in {"none", "extension"}}
    \cup {[outputFormat |-> "json", maxFileSize |-> 1, fileGrouping |-> g,
           parallel |-> FALSE] : g \in {"none", "extension"}}

InitTwoRuns ==
    /\ dir \in TwoRunsDirs
    /\ \E u \in TwoRunsUserConfigs : cfg = MergeConfig(u, dir)
    /\ ign = NoIgnoreFiles
    /\ calls = <<NewCall>>
    /\ NoWrapper

NextTwoRuns ==
    \/ \E i \in DOMAIN calls : Start(i)
    \/ \E i \in DOMAIN calls : \E k \in DOMAIN calls[i].lanes : Process(i, k)
    \/ \E i \in DOMAIN calls : Finish(i)
    \/ SecondRun

SpecTwoRuns == InitTwoRuns /\ [][NextTwoRuns]_vars

----------------------------------------------------------------------------
(* SpecRetry: the CLI's processWithRetry; every call races its timer.      *)

RetryCounts == (-1)..MaxRetryCount

RetryDirs == [1..RetryPaths -> {Accepted, StatFails}]

RetryUserConfigs ==
    {[retryCount |-> n, parallel |-> par] : n \in RetryCounts, par \in BOOLEAN}

InitRetry ==
    /\ dir \in RetryDirs
    /\ \E u \in RetryUserConfigs : cfg = MergeConfig(u, dir)
    /\ ign = NoIgnoreFiles
    /\ calls = <<>>
    /\ cli = NoCli
    /\ wpc = "loop"
    /\ wretry = 0
    /\ wresult = [kind |-> "none", value |-> NoOutput, error |-> Undefined]
    /\ wdelays = <<>>

NextRetry ==
    \/ RetryLoop
    \/ RetryAwait
    \/ RetryDelay
    \/ \E i \in DOMAIN calls : Start(i)
    \/ \E i \in DOMAIN calls : \E k \in DOMAIN calls[i].lanes : Process(i, k)
    \/ \E i \in DOMAIN calls : Finish(i)
    \/ \E i \in DOMAIN calls : Timeout(i)

SpecRetry == InitRetry /\ [][NextRetry]_vars

----------------------------------------------------------------------------
(* What the claims speak of. *)

PathsOf(recs) == [i \in DOMAIN recs |-> recs[i].path]

RecordsOf(r, p) == {i \in DOMAIN r.fileContents : r.fileContents[i].path = p}

\* a read, decode or hash step of processFile fails on the file
Fails(p, c, d) ==
    \/ d[p].fault \in {"stat", "read"}
    \/ d[p].fault = "hash" /\ c.includeFileHash

IsPlaceholder(content) ==
    content.kind \in {"[Error reading file: stat]", "[Error reading file: hash]",
                      "[Error reading file: read]",
                      "[Error reading binary file: read]",
                      "[Error creating hexdump: read]"}

Sequential(r) == ~(cfg.parallel /\ Len(r.files) > 1)

AcceptedFiles(r) ==
    LET Keep(p) == shouldProcessFile(p, cfg, dir) IN SelectSeq(r.files, Keep)

C3_ErrorPropagates ==
    \A i \in DOMAIN calls :
      ( /\ Get(cfg, "continueOnError") = "false"
        /\ \E p \in Range(calls[i].files) :
              shouldProcessFile(p, cfg, dir) /\ Fails(p, cfg, dir) )
      => calls[i].state # "fulfilled"

\* C4: when the caller does not set continueOnError, a failure on a file
\* does not abort the run: the call is never rejected.
C4_DefaultContinues ==
    \A i \in DOMAIN calls :
      "continueOnError" \notin DOMAIN cfg => calls[i].state # "rejected"

\* C8: in sequential mode the records processFiles returns are the input
\* list with the files the classifier rejects removed, in the same order.
C8_SequentialOrder ==
    \A i \in DOMAIN calls :
      calls[i].stage = "end" /\ Sequential(calls[i]) =>
        PathsOf(calls[i].fileContents) = AcceptedFiles(calls[i])

\* a sequential run over three files, the middle one rejected, is over
C8_Witness ==
    /\ ~cfg.parallel
    /\ calls[1].stage = "end"
    /\ Len(calls[1].files) = 3
    /\ ~shouldProcessFile(calls[1].files[2], cfg, dir)
    /\ PathsOf(calls[1].fileContents) = <<calls[1].files[1], calls[1].files[3]>>

\* the paths of the records a fulfilled call returned
OutputPaths(r) == {r.value.files[j].path : j \in DOMAIN r.value.files}

\* the ignore predicate loadIgnorePatterns built for the run
IgnorePredicate(p) == Ignores(loadIgnorePatterns(cfg, ign), p)

\* C1: the paths of the records a run returns are the discovered paths
\* minus those the ignore predicate matches minus those the classifier
\* rejects.
C1_SetCompleteness ==
    \A i \in DOMAIN calls :
      calls[i].state = "fulfilled" =>
        OutputPaths(calls[i]) =
          {p \in Range(Discovered(cfg, dir)) :
              ~IgnorePredicate(p) /\ shouldProcessFile(p, cfg, dir)}

\* the root .gitignore, read alone, ignores the path
GitignoreMatches(p) == Ignores(ign.gitignore, p)

\* the ignore sources added after .gitignore
LaterSources ==
    (IF cfg.respectNpmignore THEN ign.npmignore ELSE <<>>)
    \o (IF cfg.respectDockerignore THEN ign.dockerignore ELSE <<>>)
    \o cfg.ignorePatterns

\* nothing but .gitignore excludes a discovered path
NoOtherExclusion(p) ==
    /\ dir[p].depth <= cfg.maxDepth
    /\ shouldProcessFile(p, cfg, dir)
    /\ ~Ignores(LaterSources, p)

\* C10 as stated: a discovered path the root .gitignore matches is not in
\* the output when respectGitignore is true, and is in it when
\* respectGitignore is false and nothing else excludes it.
C10_GitignorePrecedence ==
    \A i \in DOMAIN calls : \A p \in Range(Discovered(cfg, dir)) :
      calls[i].state = "fulfilled" /\ GitignoreMatches(p) =>
        /\ cfg.respectGitignore => p \notin OutputPaths(calls[i])
        /\ ~cfg.respectGitignore /\ NoOtherExclusion(p) =>
              p \in OutputPaths(calls[i])

\* a negation pattern added after .gitignore matches the path
NegatedLater(p) ==
    \E j \in DOMAIN LaterSources : LaterSources[j].neg /\ p \in LaterSources[j].pat

\* C10 amended: ... when respectGitignore is true, unless a negation
\* pattern of a source added after .gitignore (.npmignore, .dockerignore,
\* ignorePatterns) matches the path; the rest as stated.
C10_GitignorePrecedenceUnlessNegated ==
    \A i \in DOMAIN calls : \A p \in Range(Discovered(cfg, dir)) :
      calls[i].state = "fulfilled" /\ GitignoreMatches(p) =>
        /\ cfg.respectGitignore /\ ~NegatedLater(p) =>
              p \notin OutputPaths(calls[i])
        /\ ~cfg.respectGitignore /\ NoOtherExclusion(p) =>
              p \in OutputPaths(calls[i])

\* a run with respectGitignore true returned output: path 1, which an
\* include pattern and .gitignore both match, is left out, path 3 is in
C10_Witness ==
    /\ cfg.respectGitignore
    /\ calls[1].state = "fulfilled"
    /\ 1 \in Range(Discovered(cfg, dir))
    /\ GitignoreMatches(1)
    /\ ~NegatedLater(1)
    /\ 1 \notin OutputPaths(calls[1])
    /\ 3 \in OutputPaths(calls[1])

\* a multiset of output entries: how often each occurs
Count(files, e) == Cardinality({j \in DOMAIN files : files[j] = e})

SameEntries(f, g) ==
    /\ Len(f) = Len(g)
    /\ \A e \in Range(f) \cup Range(g) : Count(f, e) = Count(g, e)

BothFulfilled ==
    /\ Len(calls) = 2
    /\ calls[1].state = "fulfilled"
    /\ calls[2].state = "fulfilled"

\* C9 as stated: two runs on an unchanged directory with the same
\* configuration return identical json output, the same records in the same
\* order.
C9_Idempotence == BothFulfilled => calls[1].value = calls[2].value

\* C9 amended: two such runs return the same records; in sequential mode
\* (parallel false, or fewer than 2 files) also in the same order, so the
\* json output is identical.  In parallel mode the order may differ.
C9_IdempotenceUpToParallelOrder ==
    BothFulfilled =>
      /\ calls[1].value.renderer = calls[2].value.renderer
      /\ SameEntries(calls[1].value.files, calls[2].value.files)
      /\ Sequential(calls[1]) => calls[1].value = calls[2].value

\* two sequential runs over three files returned the same three records
C9_Witness ==
    /\ BothFulfilled
    /\ ~cfg.parallel
    /\ Len(calls[1].value.files) = 3
    /\ calls[1].value = calls[2].value

----------------------------------------------------------------------------
(* processWithRetry. *)

Last == calls[Len(calls)]

\* C5: every attempt that another follows has failed, so no attempt starts
\* after a success; after a success the wrapper only returns, and what it
\* returns is the result of that last, successful, attempt; it gives up
\* (throws) only once retryCount retries have been made.
C5_RetryUntilSuccess ==
    /\ \A i \in 1..(Len(calls) - 1) : calls[i].state = "rejected"
    /\ calls # <<>> /\ Last.state = "fulfilled" => wpc \in {"await", "returned"}
    /\ calls # <<>> /\ wpc = "returned" =>
          /\ Last.state = "fulfilled"
          /\ wresult = [kind |-> "value", value |-> Last.value,
                        error |-> Undefined]
          /\ Len(calls) <= cfg.retryCount + 1
    /\ wpc = "thrown" => Len(calls) = cfg.retryCount + 1

\* two attempts failed, one of them by timeout, and the third succeeded: the
\* wrapper returned the third's output after three invocations
C5_Witness ==
    /\ wpc = "returned"
    /\ Len(calls) = 3
    /\ calls[1].error = "Error processing directory: " \o TimeoutMessage
    /\ calls[2].state = "rejected"
    /\ wresult.value = calls[3].value
    /\ Len(wresult.value.files) = RetryPaths

C7_TimeoutIsFinal ==
    [][\A i \in DOMAIN calls :
         /\ ( /\ calls[i].timer = "armed"
              /\ calls'[i].timer = "fired"
              /\ calls[i].processing = "pending" )
            => /\ calls'[i].state = "rejected"
               /\ calls'[i].error = "Error processing directory: " \o TimeoutMessage
               /\ calls'[i].value = NoOutput
         /\ calls[i].state # "pending"
            => /\ calls'[i].state = calls[i].state
               /\ calls'[i].value = calls[i].value
               /\ calls'[i].error = calls[i].error
         /\ calls'[i].state = "rejected" => calls'[i].value = NoOutput
         /\ wpc' = "returned" /\ wpc # "returned" /\ i = Len(calls)
            => calls[i].state = "fulfilled"]_vars

\* a call timed out and its pipeline then ran to its end: the records it
\* collected were returned to nobody
C7_Witness ==
    \E i \in DOMAIN calls :
      /\ calls[i].state = "rejected"
      /\ calls[i].error = "Error processing directory: " \o TimeoutMessage
      /\ calls[i].stage = "end"
      /\ calls[i].processing = "resolved"
      /\ Len(calls[i].fileContents) = RetryPaths
      /\ calls[i].value = NoOutput

----------------------------------------------------------------------------
(* The ignore predicate and the flags. *)

\* the paths config.ignorePatterns matches
MatchesIgnorePatterns(p) == \E j \in DOMAIN cfg.ignorePatterns :
                               /\ ~cfg.ignorePatterns[j].neg
                               /\ p \in cfg.ignorePatterns[j].pat

\* C11: a path that config.ignorePatterns (the built-in list) or
\* excludePatterns matches is in no output, whatever respectGitignore,
\* respectNpmignore and respectDockerignore are.
C11_BuiltinAlwaysIgnored ==
    \A i \in DOMAIN calls :
      calls[i].state = "fulfilled" =>
        \A p \in OutputPaths(calls[i]) :
          /\ p \notin cfg.excludePatterns
          /\ ~MatchesIgnorePatterns(p)

----------------------------------------------------------------------------
(* SpecFormat: one processDirectory call of a library caller under each    *)
(* output format name, in several spellings.                               *)

SevenFormats == {"text", "json", "markdown", "tree", "csv", "html", "xml"}

FormatNames ==
    SevenFormats \cup {"TEXT", "JSON", "Json", "Markdown", "Tree", "CSV",
                       "Html", "XML", "yaml"}

FormatDirs == UNION {[1..n -> {Accepted, ReadFails}] : n \in 0..MaxPaths}

FormatUserConfigs ==
    {[outputFormat |-> f, parallel |-> par] :
        f \in FormatNames, par \in BOOLEAN}

InitFormat ==
    /\ dir \in FormatDirs
    /\ \E u \in FormatUserConfigs : cfg = MergeConfig(u, dir)
    /\ ign = NoIgnoreFiles
    /\ calls = <<NewCall>>
    /\ NoWrapper

SpecFormat == InitFormat /\ [][Next]_vars

\* C12: for each of the seven format names, in any letter case, the output
\* of the call is produced by the renderer of that name.
C12_DispatchSevenFormats ==
    \A i \in DOMAIN calls :
      ( /\ calls[i].state = "fulfilled"
        /\ toLowerCase(cfg.outputFormat) \in SevenFormats )
      => calls[i].value.renderer = toLowerCase(cfg.outputFormat)

----------------------------------------------------------------------------
(* SpecCli: one run of the command line, whose timeout does not elapse.    *)

BinaryFile == File(1, TRUE, "none", 1, FALSE)

CliDirs == [1..RetryPaths -> {Accepted, StatFails, BinaryFile}]

CliConfigFiles ==
    {MissingFile, MalformedFile, JsonFile([binaryFilesAction |-> "include"]),
     JsonFile([retryCount |-> 0, continueOnError |-> "true"]),
     JsonFile([outputFormat |-> "json"])}

CliArgvs ==
    {Argv(f, b, Undefined, MissingFile, v) :
        f \in {Undefined, "json", "html", "yaml"},
        b \in {Undefined, "skip", "include"}, v \in BOOLEAN}
    \cup {Argv(f, b, "config.json", file, TRUE) :
            f \in {Undefined, "json", "yaml"},
            b \in {Undefined, "skip", "include"}, file \in CliConfigFiles}

InitCli ==
    /\ dir \in CliDirs
    /\ cfg = defaultConfig(dir)
    /\ ign = NoIgnoreFiles
    /\ calls = <<>>
    /\ \E argv \in CliArgvs :
          cli = [pc |-> "start", argv |-> argv, exitCode |-> -1,
                 stderr |-> Undefined]
    /\ wpc = "none"
    /\ wretry = 0
    /\ wresult = [kind |-> "none", value |-> NoOutput, error |-> Undefined]
    /\ wdelays = <<>>

NextCli ==
    \/ HandleAction
    \/ RetryLoop
    \/ RetryAwait
    \/ RetryDelay
    \/ \E i \in DOMAIN calls : Start(i)
    \/ \E i \in DOMAIN calls : \E k \in DOMAIN calls[i].lanes : Process(i, k)
    \/ \E i \in DOMAIN calls : Finish(i)
    \/ CliExit

SpecCli == InitCli /\ [][NextCli]_vars

\* the run has a configuration error: a format name that is none of the
\* supported ones, or a -c file that is missing or is not JSON
ConfigError ==
    LET options == ParseOptions(cli.argv)
    IN \/ toLowerCase(options.format) \notin SevenFormats
       \/ /\ options.config # Undefined
          /\ cli.argv.configFile.state \in {"missing", "malformed"}

\* C13: a CLI run with a configuration error never invokes processDirectory
\* and never enters the retry wrapper, and when it exits its code is not 0
\* and the error is reported.
C13_ConfigErrorsAreFatal ==
    cli.pc # "none" /\ ConfigError =>
      /\ calls = <<>>
      /\ wpc = "none"
      /\ cli.pc = "exit" => cli.exitCode = 1 /\ cli.stderr # Undefined

\* C17: once handleAction has merged the options, the binaryFilesAction of
\* the effective configuration is the action given to --binary-action.
C17_BinaryActionFlag ==
    cli.pc = "retry" /\ cli.argv.binaryAction # Undefined =>
      cfg.binaryFilesAction = cli.argv.binaryAction

----------------------------------------------------------------------------
(* SpecClassify: one processDirectory call over text files of each size    *)
(* and binary files, under size bounds, the empty-file policy and the      *)
(* binary actions.                                                         *)

TextOfSize(n) == File(n, FALSE, "none", 1, FALSE)

ClassifyDirs ==
    UNION {[1..n -> {TextOfSize(s) : s \in 0..MaxSize} \cup {BinaryFile}] :
           n \in 0..MaxPaths}

ClassifyUserConfigs ==
    {[minFileSize |-> lo, maxFileSize |-> hi, skipEmptyFiles |-> e] :
        lo \in 0..MaxSize, hi \in 0..MaxSize, e \in BOOLEAN}
    \cup {[binaryFilesAction |-> a] : a \in {"include", "hexdump"}}
    \cup {[binaryFilesAction |-> "include", skipBinaryFiles |-> FALSE]}

InitClassify ==
    /\ dir \in ClassifyDirs
    /\ \E u \in ClassifyUserConfigs : cfg = MergeConfig(u, dir)
    /\ ign = NoIgnoreFiles
    /\ calls = <<NewCall>>
    /\ NoWrapper

SpecClassify == InitClassify /\ [][Next]_vars

\* what base64-decoding a record's content gives: the bytes of the file the
\* content encodes, of no file (0) when the content is not base64
Base64Decode(content) == IF content.kind = "base64" THEN content.of ELSE 0

\* C14: with binaryFilesAction "include" and every other option at its
\* default, every binary file of the directory has a record in the result,
\* with isBinary true, encoding base64 and content that decodes to the
\* file's bytes.
C14_BinaryRoundTrip ==
    \A i \in DOMAIN calls :
      ( /\ cfg = MergeConfig([binaryFilesAction |-> "include"], dir)
        /\ calls[i].stage = "end" )
      => \A p \in DOMAIN dir :
           dir[p].binary =>
             \E j \in RecordsOf(calls[i], p) :
               LET rec == calls[i].fileContents[j]
               IN /\ rec.isBinary = "true"
                  /\ rec.encoding = "base64"
                  /\ Base64Decode(rec.content) = p

\* the file has a record in the result of the call
HasRecord(r, p) == RecordsOf(r, p) # {}

\* C15 as stated: under every configuration a file of exactly maxFileSize
\* bytes is accepted and one of maxFileSize + 1 bytes rejected, a file of
\* exactly minFileSize bytes is accepted and one of minFileSize - 1 bytes
\* rejected.
C15_StrictBounds ==
    \A i \in DOMAIN calls :
      calls[i].stage = "end" =>
        \A p \in DOMAIN dir :
          ~dir[p].binary =>
            /\ dir[p].size = cfg.maxFileSize => HasRecord(calls[i], p)
            /\ dir[p].size = cfg.maxFileSize + 1 => ~HasRecord(calls[i], p)
            /\ dir[p].size = cfg.minFileSize => HasRecord(calls[i], p)
            /\ dir[p].size = cfg.minFileSize - 1 => ~HasRecord(calls[i], p)

\* another rule of the classifier rejects the file: it is empty and
\* skipEmptyFiles is set, or it is binary and binary files are skipped
OtherRuleRejects(p) ==
    \/ cfg.skipEmptyFiles /\ dir[p].size = 0
    \/ cfg.detectBinary /\ dir[p].binary /\ cfg.skipBinaryFiles

\* C15 amended: a file larger than maxFileSize or smaller than minFileSize
\* is rejected under every configuration; a file of exactly maxFileSize or
\* exactly minFileSize bytes is accepted when minFileSize <= maxFileSize and
\* no other rule of the classifier rejects it.
C15_StrictBoundsWithinRange ==
    \A i \in DOMAIN calls :
      calls[i].stage = "end" =>
        \A p \in DOMAIN dir :
          /\ dir[p].size > cfg.maxFileSize => ~HasRecord(calls[i], p)
          /\ dir[p].size < cfg.minFileSize => ~HasRecord(calls[i], p)
          /\ ( /\ dir[p].size \in {cfg.minFileSize, cfg.maxFileSize}
               /\ cfg.minFileSize <= cfg.maxFileSize
               /\ ~OtherRuleRejects(p) )
             => HasRecord(calls[i], p)

\* both bounds are 1 and the files have 0, 1 and 2 bytes: the run is over and
\* only the file of 1 byte has a record
C15_Witness ==
    /\ cfg.minFileSize = 1
    /\ cfg.maxFileSize = 1
    /\ Len(calls) = 1
    /\ calls[1].stage = "end"
    /\ [p \in DOMAIN dir |-> dir[p].size] = <<0, 1, 2>>
    /\ PathsOf(calls[1].fileContents) = <<2>>

----------------------------------------------------------------------------
(* Discovery and chunking. *)

NoDuplicates(s) == \A a, b \in DOMAIN s : s[a] = s[b] => a = b

\* C16: the list findMatchingFiles returns names no path twice, and at
\* every moment of a run, sequential or parallel, the result holds at most
\* one record per path; so does the output.
C16_UniquePaths ==
    \A i \in DOMAIN calls :
      /\ NoDuplicates(calls[i].files)
      /\ NoDuplicates(PathsOf(calls[i].fileContents))
      /\ NoDuplicates(PathsOf(calls[i].value.files))

\* path 1 matches both include patterns; a parallel run is over and path 1
\* has its one record
C16_Witness ==
    /\ cfg.includePatterns = <<{1}, 1..MaxPaths>>
    /\ cfg.parallel
    /\ Len(calls) = 1
    /\ calls[1].state = "fulfilled"
    /\ Len(calls[1].lanes) = 2
    /\ Cardinality(RecordsOf(calls[1], 1)) = 1
    /\ 1 \in OutputPaths(calls[1])

----------------------------------------------------------------------------
(* SpecChunks: one processDirectory call in parallel mode; the call of     *)
(* processFile and its completion are separate steps, so the chunks        *)
(* overlap in every way.                                                   *)

ChunkDirs ==
    UNION {[1..n -> {Accepted, TooLarge, ReadFails}] : n \in 0..MaxPaths}

ChunkUserConfigs ==
    {[maxFileSize |-> 1, parallel |-> TRUE, maxParallelProcesses |-> m] :
        m \in 1..MaxParallel}

InitChunks ==
    /\ dir \in ChunkDirs
    /\ \E u \in ChunkUserConfigs : cfg = MergeConfig(u, dir)
    /\ ign = NoIgnoreFiles
    /\ calls = <<NewCall>>
    /\ NoWrapper

NextChunks ==
    \/ \E i \in DOMAIN calls : Start(i)
    \/ \E i \in DOMAIN calls : \E k \in DOMAIN calls[i].lanes : Begin(i, k)
    \/ \E i \in DOMAIN calls : \E k \in DOMAIN calls[i].lanes : Complete(i, k)
    \/ \E i \in DOMAIN calls : Finish(i)

SpecChunks == InitChunks /\ [][NextChunks]_vars

\* the call runs its files as concurrent chunks
ParallelMode(r) == cfg.parallel /\ Len(r.files) > 1

\* where a path stands in the ordered input list
IndexIn(files, p) == CHOOSE j \in DOMAIN files : files[j] = p

\* the chunk a path belongs to
ChunkOf(r, p) == CHOOSE k \in DOMAIN r.lanes : p \in Range(r.lanes[k])

\* C18: in parallel mode, at every moment, two records of files of the same
\* chunk stand in the result in the order of their paths in the input list.
C18_OrderWithinChunk ==
    \A i \in DOMAIN calls :
      LET r == calls[i] IN
      ParallelMode(r) /\ r.stage # "start" =>
        \A a, b \in DOMAIN r.fileContents :
          ( /\ a < b
            /\ ChunkOf(r, r.fileContents[a].path)
                 = ChunkOf(r, r.fileContents[b].path) )
          => IndexIn(r.files, r.fileContents[a].path)
               < IndexIn(r.files, r.fileContents[b].path)

\* three files in two chunks; the second chunk finished first, and the two
\* records of the first chunk follow it in their input order
C18_Witness ==
    /\ Len(calls) = 1
    /\ calls[1].stage = "end"
    /\ calls[1].lanes = <<<<1, 2>>, <<3>>>>
    /\ PathsOf(calls[1].fileContents) = <<3, 1, 2>>

\* C19: in parallel mode the file list is split into at most
\* maxParallelProcesses contiguous chunks, each of ceil(N /
\* maxParallelProcesses) files but the last, which has the rest, and at
\* every moment at most maxParallelProcesses processFile calls are awaited.
C19_BoundedConcurrency ==
    \A i \in DOMAIN calls :
      LET r == calls[i]
          n == Len(r.lanes)
          size == CeilDiv(Len(r.files), cfg.maxParallelProcesses)
      IN ParallelMode(r) /\ r.stage # "start" =>
           /\ n <= cfg.maxParallelProcesses
           /\ Flatten(r.lanes) = r.files
           /\ \A k \in 1..(n - 1) : Len(r.lanes[k]) = size
           /\ Len(r.lanes[n]) \in 1..size
           /\ Cardinality(r.inflight) <= cfg.maxParallelProcesses

\* three files and a limit of 2: two chunks, and both await a file
C19_Witness ==
    /\ Len(calls) = 1
    /\ cfg.maxParallelProcesses = 2
    /\ Len(calls[1].files) = 3
    /\ Len(calls[1].lanes) = 2
    /\ calls[1].inflight = {1, 2}

\* C20: in parallel mode no path is ever handed to processFile twice, and
\* by the time processFiles returns every path of the input list has been
\* handed to it exactly once.
C20_ChunksPartitionInput ==
    \A i \in DOMAIN calls :
      LET r == calls[i] IN
      ParallelMode(r) =>
        /\ NoDuplicates(r.invoked)
        /\ Range(r.invoked) \subseteq Range(r.files)
        /\ r.stage = "end" => Range(r.invoked) = Range(r.files)

\* three files in three chunks, called in the order 2, 3, 1; processFiles
\* has returned
C20_Witness ==
    /\ Len(calls) = 1
    /\ calls[1].stage = "end"
    /\ Len(calls[1].lanes) = 3
    /\ calls[1].invoked = <<2, 3, 1>>

----------------------------------------------------------------------------
(* Error records. *)

\* C21: a record with an error field has size 0 and an error placeholder as
\* content, and exists only for a file whose processing failed while
\* continueOnError is true.
C21_ErrorRecordShape ==
    \A i \in DOMAIN calls :
      \A j \in DOMAIN calls[i].fileContents :
        LET rec == calls[i].fileContents[j] IN
        rec.error # Undefined =>
          /\ rec.size = 0
          /\ IsPlaceholder(rec.content)
          /\ Fails(rec.path, cfg, dir)
          /\ Truthy(Get(cfg, "continueOnError"))

----------------------------------------------------------------------------
(* The order of the ignore sources. *)

\* the last rule of the list that matches the path is a negation
LastMatchNegates(rules, p) ==
    LET hits == {j \in DOMAIN rules : p \in rules[j].pat}
    IN hits # {} /\ rules[CHOOSE j \in hits : \A h \in hits : h <= j].neg

\* the ignore files added after .gitignore, as far as they are respected
LaterIgnoreFiles ==
    (IF cfg.respectNpmignore THEN ign.npmignore ELSE <<>>)
    \o (IF cfg.respectDockerignore THEN ign.dockerignore ELSE <<>>)

\* C22: the built-in list is the earliest source, so a negation in
\* .gitignore re-includes a path the built-in list ignores: such a path,
\* when no later source names it and nothing else excludes it, is in the
\* output.
C22_GitignoreNegatesBuiltin ==
    \A i \in DOMAIN calls :
      calls[i].state = "fulfilled" =>
        \A p \in Range(Discovered(cfg, dir)) :
          ( /\ cfg.respectGitignore
            /\ MatchesIgnorePatterns(p)
            /\ LastMatchNegates(ign.gitignore, p)
            /\ \A j \in DOMAIN LaterIgnoreFiles : p \notin LaterIgnoreFiles[j].pat
            /\ dir[p].depth <= cfg.maxDepth
            /\ shouldProcessFile(p, cfg, dir) )
          => p \in OutputPaths(calls[i])

----------------------------------------------------------------------------
(* SpecGroup: one processDirectory call over files of two extensions under *)
(* each grouping mode.                                                     *)

GroupDirs ==
    UNION {[1..n -> {File(1, FALSE, "none", e, FALSE) : e \in 1..2}] :
           n \in 0..MaxPaths}

GroupUserConfigs ==
    {[outputFormat |-> "json", fileGrouping |-> g, parallel |-> par] :
        g \in {"none", "extension", "language"}, par \in BOOLEAN}

InitGroup ==
    /\ dir \in GroupDirs
    /\ \E u \in GroupUserConfigs : cfg = MergeConfig(u, dir)
    /\ ign = NoIgnoreFiles
    /\ calls = <<NewCall>>
    /\ NoWrapper

SpecGroup == InitGroup /\ [][Next]_vars

\* C23: with fileGrouping "language" a run whose files are all processed
\* ends fulfilled, whatever the number of records, and its output lists the
\* records by ascending language of their extension.
C23_LanguageGrouping ==
    \A i \in DOMAIN calls :
      cfg.fileGrouping = "language" /\ calls[i].stage = "end" =>
        /\ calls[i].state = "fulfilled"
        /\ Len(calls[i].value.files) = Len(calls[i].fileContents)
        /\ \A a, b \in DOMAIN calls[i].value.files :
             a < b => GroupKey(calls[i].value.files[a], dir)
                        <= GroupKey(calls[i].value.files[b], dir)

----------------------------------------------------------------------------
(* SpecOrder: one sequential processDirectory call under fileOrder,        *)
(* directoryOrder and both sort directions.  Name 0 is a name no file of   *)
(* the directory has.                                                      *)

OrderDirs == UNION {[1..n -> {Accepted}] : n \in 0..MaxPaths}

FileOrders == {<<>>, <<2>>, <<3, 1>>, <<2, 0, 1, 2>>}

DirectoryOrders == {<<>>, <<{3}>>, <<{2, 3}, {1}>>}

OrderUserConfigs ==
    {[parallel |-> FALSE, fileOrder |-> fo, directoryOrder |-> do,
      sortDirection |-> sd] :
        fo \in FileOrders, do \in DirectoryOrders, sd \in {"asc", "desc"}}

InitOrder ==
    /\ dir \in OrderDirs
    /\ \E u \in OrderUserConfigs : cfg = MergeConfig(u, dir)
    /\ ign = NoIgnoreFiles
    /\ calls = <<NewCall>>
    /\ NoWrapper

SpecOrder == InitOrder /\ [][Next]_vars

\* the list in the order the sort by path gave it
PriorSort(files) ==
    IF cfg.sortDirection = "asc" THEN SortPaths(files)
    ELSE Reverse(SortPaths(files))

\* the list findMatchingFiles returned puts the files fileOrder names before
\* the others, the named ones in the order of fileOrder, the others in the
\* order of the sort
FileOrderHolds(files) ==
    \A a, b \in DOMAIN files :
      a < b =>
        LET x == files[a]
            y == files[b]
            named == Range(cfg.fileOrder)
        IN /\ ~(x \notin named /\ y \in named)
           /\ x \in named /\ y \in named =>
                IndexOf(cfg.fileOrder, x) < IndexOf(cfg.fileOrder, y)
           /\ x \notin named /\ y \notin named =>
                IndexIn(PriorSort(files), x) < IndexIn(PriorSort(files), y)

\* C24 as stated: whenever fileOrder is not empty the list the discoverer
\* returns has the named files first, in fileOrder's order, then the others
\* in the order of the sort.
C24_FileOrderFirst ==
    \A i \in DOMAIN calls :
      calls[i].stage # "start" /\ Len(cfg.fileOrder) > 0 =>
        FileOrderHolds(calls[i].files)

\* C24 amended: the same, when directoryOrder is empty.
C24_FileOrderFirstWithoutDirectoryOrder ==
    \A i \in DOMAIN calls :
      ( /\ calls[i].stage # "start"
        /\ Len(cfg.fileOrder) > 0
        /\ Len(cfg.directoryOrder) = 0 )
      => FileOrderHolds(calls[i].files)

\* fileOrder names 3 then 1: the list of three files is 3, 1, 2
C24_Witness ==
    /\ cfg.fileOrder = <<3, 1>>
    /\ cfg.directoryOrder = <<>>
    /\ Len(calls) = 1
    /\ calls[1].stage = "end"
    /\ calls[1].files = <<3, 1, 2>>
    /\ PathsOf(calls[1].fileContents) = <<3, 1, 2>>

----------------------------------------------------------------------------
(* SpecTransform: one sequential processDirectory call over text files of  *)
(* each number of lines under each preview and tail window.                *)

TextOfLines(n) == [Accepted EXCEPT !.lines = n]

TransformDirs ==
    UNION {[1..n -> {TextOfLines(l) : l \in 1..MaxLines}] : n \in 0..RetryPaths}

TransformUserConfigs ==
    {[parallel |-> FALSE, fileContentPreview |-> pv, fileContentTail |-> tl] :
        pv \in 0..MaxWindow, tl \in 0..MaxWindow}

InitTransform ==
    /\ dir \in TransformDirs
    /\ \E u \in TransformUserConfigs : cfg = MergeConfig(u, dir)
    /\ ign = NoIgnoreFiles
    /\ calls = <<NewCall>>
    /\ NoWrapper

SpecTransform == InitTransform /\ [][Next]_vars

\* the places of the middle marker in the lines of a content
MiddleMarkers(lines) == {m \in DOMAIN lines : lines[m] = MiddleMarker}

\* C25: with a tail window T > 0 and a preview window P, the content of a
\* text file of more than P + T lines has one middle marker, after it
\* exactly the last T lines of the file, and each of these lines once in
\* all; the content of a file of at most P + T lines has no marker.
C25_TailAfterMarker ==
    \A i \in DOMAIN calls :
      \A j \in DOMAIN calls[i].fileContents :
        LET rec == calls[i].fileContents[j]
            lines == rec.content.lines
            L == dir[rec.path].lines
            P == cfg.fileContentPreview
            T == cfg.fileContentTail
        IN T > 0 /\ rec.content.kind = "text" =>
             IF L > P + T
             THEN /\ Cardinality(MiddleMarkers(lines)) = 1
                  /\ LET m == CHOOSE x \in MiddleMarkers(lines) : TRUE
                     IN SubSeq(lines, m + 1, Len(lines))
                          = [k \in 1..T |-> L - T + k]
                  /\ \A k \in (L - T + 1)..L :
                       Cardinality({x \in DOMAIN lines : lines[x] = k}) = 1
             ELSE MiddleMarkers(lines) = {}

----------------------------------------------------------------------------
(* Attempts and their timers. *)

\* C26: the result of every processDirectory call holds records of that
\* call only: at every moment the array of a call has at most one record
\* per path of its own file list, and the output of a fulfilled call lists
\* exactly the files of its own list that the classifier accepted, each
\* once, whatever abandoned attempts are still running.
C26_AttemptsIsolated ==
    \A i \in DOMAIN calls :
      /\ NoDuplicates(PathsOf(calls[i].fileContents))
      /\ Range(PathsOf(calls[i].fileContents)) \subseteq Range(calls[i].files)
      /\ calls[i].state = "fulfilled" =>
           /\ NoDuplicates(PathsOf(calls[i].value.files))
           /\ OutputPaths(calls[i]) = Range(AcceptedFiles(calls[i]))

\* the first attempt timed out and is still collecting, with a record in
\* its array, when the second attempt has delivered its output
C26_Witness ==
    /\ Len(calls) = 2
    /\ calls[1].error = "Error processing directory: " \o TimeoutMessage
    /\ calls[1].stage = "files"
    /\ Len(calls[1].fileContents) = 1
    /\ calls[2].state = "fulfilled"
    /\ Len(calls[2].value.files) = RetryPaths

\* C27: once a processDirectory call has settled because its pipeline
\* finished, with a result or with an error, the timer the call created is
\* no longer armed.
C27_TimerCancelledOnSettle ==
    \A i \in DOMAIN calls :
      (calls[i].state # "pending" /\ calls[i].timer # "fired")
         => calls[i].timer # "armed"

\* C28: a value loaded from the config file stays in the effective
\* configuration unless its flag was given on the command line: once
\* handleAction has merged the options, a run without --format has the
\* outputFormat of its config file.
C28_ConfigFileValueKept ==
    ( /\ cli.pc \notin {"none", "start"}
      /\ cli.argv.config # Undefined
      /\ cli.argv.configFile.state = "valid"
      /\ "outputFormat" \in DOMAIN cli.argv.configFile.json
      /\ cli.argv.format = Undefined )
    => cfg.outputFormat = cli.argv.configFile.json.outputFormat

\* C29: the isBinary flag of every record equals the binary classification
\* the classifier computed for the same file under the same configuration.
C29_IsBinaryMatchesClassifier ==
    \A i \in DOMAIN calls :
      \A j \in DOMAIN calls[i].fileContents :
        LET rec == calls[i].fileContents[j]
        IN rec.error = Undefined =>
             ( rec.isBinary = "true"
                 <=> (cfg.detectBinary /\ isBinaryFile(rec.path, dir, TRUE)) )

----------------------------------------------------------------------------
(* SpecChunkLoop: processFiles from its first statement, the chunk-building *)
(* loop one iteration a step, for every integer maxParallelProcesses.       *)

\* the chunks the model follows the loop for
MaxChunks == 4

\* Math.ceil(n / m): Infinity for m = 0, and for a negative m the
\* quotient rounded towards zero (-0 is 0)
ChunkSize(n, m) ==
    IF m = 0 THEN Infinity
    ELSE IF m > 0 THEN CeilDiv(n, m)
    ELSE 0 - (n \div (0 - m))

\* Array.prototype.slice(from, to): a negative index counts from the end,
\* both are clamped to the array
Slice(s, from, to) ==
    LET Clamp(x) == IF x < 0
                    THEN (IF Len(s) + x < 0 THEN 0 ELSE Len(s) + x)
                    ELSE Min({x, Len(s)})
    IN SubSeq(s, Clamp(from) + 1, Clamp(to))

\* processDirectory up to the head of processFiles: the sequential branch
\* has one loop over all files, the parallel branch starts building chunks
EnterProcessFiles(r, c, d, ig) ==
    LET files == findMatchingFiles(loadIgnorePatterns(c, ig), c, d)
    IN IF c.parallel /\ Len(files) > 1
       THEN [r EXCEPT !.stage = "chunking", !.files = files, !.i = 0]
       ELSE [r EXCEPT !.stage = "files", !.files = files,
                      !.lanes = <<files>>, !.pos = <<0>>]

\* one iteration of `for (let i = 0; i < files.length; i += chunkSize)`
PushChunk(r, c) ==
    LET chunkSize == ChunkSize(Len(r.files), c.maxParallelProcesses)
    IN [r EXCEPT !.lanes = Append(@, Slice(r.files, r.i, r.i + chunkSize)),
                 !.i = @ + chunkSize]

\* the loop has ended: chunks.map starts one loop per chunk
MapChunks(r) ==
    [r EXCEPT !.stage = "files", !.pos = [k \in DOMAIN r.lanes |-> 0]]

BuildChunk(i) ==
    /\ calls[i].stage = "chunking"
    /\ calls[i].i < Len(calls[i].files)
    /\ Len(calls[i].lanes) < MaxChunks
    /\ calls' = [calls EXCEPT ![i] = PushChunk(@, cfg)]
    /\ UNCHANGED <<cli, cfg, dir, ign, wpc, wretry, wresult, wdelays>>

RunChunks(i) ==
    /\ calls[i].stage = "chunking"
    /\ ~(calls[i].i < Len(calls[i].files))
    /\ calls' = [calls EXCEPT ![i] = MapChunks(@)]
    /\ UNCHANGED <<cli, cfg, dir, ign, wpc, wretry, wresult, wdelays>>

\* --max-parallel is parsed with parseInt and not range-checked
ChunkLoopUserConfigs ==
    {[maxFileSize |-> 1, parallel |-> TRUE, maxParallelProcesses |-> m] :
        m \in (0 - MaxParallel)..MaxParallel}

ChunkLoopDirs ==
    UNION {[1..n -> {Accepted, TooLarge}] : n \in 0..MaxPaths}

InitChunkLoop ==
    /\ dir \in ChunkLoopDirs
    /\ \E u \in ChunkLoopUserConfigs : cfg = MergeConfig(u, dir)
    /\ ign = NoIgnoreFiles
    /\ calls = <<EnterProcessFiles(NewCall, cfg, dir, ign)>>
    /\ NoWrapper

NextChunkLoop ==
    \/ \E i \in DOMAIN calls : BuildChunk(i)
    \/ \E i \in DOMAIN calls : RunChunks(i)
    \/ \E i \in DOMAIN calls : \E k \in DOMAIN calls[i].lanes : Begin(i, k)
    \/ \E i \in DOMAIN calls : \E k \in DOMAIN calls[i].lanes : Complete(i, k)
    \/ \E i \in DOMAIN calls : Finish(i)

\* Node's event loop runs every continuation that is ready
SpecChunkLoop ==
    InitChunkLoop /\ [][NextChunkLoop]_vars /\ WF_vars(NextChunkLoop)

\* for a positive maxParallelProcesses the loop builds the chunks of Lanes
ChunkLoopBuildsLanes ==
    \A i \in DOMAIN calls :
      (calls[i].stage = "files" /\ cfg.maxParallelProcesses > 0)
        => calls[i].lanes = Lanes(calls[i].files, cfg)

\* the model stops following the loop only where the loop cannot end: i
\* does not grow and is below files.length
ChunkLoopCutOnlyWhenEndless ==
    \A i \in DOMAIN calls :
      (calls[i].stage = "chunking" /\ Len(calls[i].lanes) = MaxChunks)
        => /\ ChunkSize(Len(calls[i].files), cfg.maxParallelProcesses) <= 0
           /\ calls[i].i < Len(calls[i].files)

\* C30: processFiles terminates for every integer maxParallelProcesses,
\* zero and negative ones included: the chunk-building loop ends and, the
\* processFile calls settled, processFiles returns.
C30_ProcessFilesTerminates ==
    <>(\A i \in DOMAIN calls : calls[i].stage = "end")

\* every iteration of the chunk-building loop moves i forward
ChunkLoopAdvances ==
    [][\A i \in DOMAIN calls :
         (calls[i].stage = "chunking" /\ calls'[i].lanes # calls[i].lanes)
           => calls'[i].i > calls[i].i]_vars

====
